---- MODULE Spec2Model ----
(***************************************************************************)
(* Model of script.js: the temperature matrix view.  A CSV file is loaded  *)
(* asynchronously; when the load resolves the rows are parsed, filtered to *)
(* the configured year range, aggregated per (year, month), drawn as       *)
(* cells, and a click handler on the toggle button flips the display mode. *)
(*                                                                         *)
(* JavaScript numbers are IEEE 754 doubles, records [t, s, m, e]: t = "num" *)
(* is the finite number s * m * 2^e, t = "inf" is s * Infinity, t = "nan"  *)
(* is NaN and t = "undef" is undefined.  A raw CSV field is a record that  *)
(* says what is written in the field.                                      *)
(***************************************************************************)
EXTENDS Integers, Sequences, FiniteSets, TLC

\* ------------------------------------------------------------------------
\* Bounds of the model
\* ------------------------------------------------------------------------
MaxRows == 3

MaxClicks == 2

MaxIgnoredClicks == 2

\* ------------------------------------------------------------------------
\* CONFIG (script.js:5-24) and MONTHS (script.js:26-39)
\* ------------------------------------------------------------------------
yearRangeStart == 2008

yearRangeEnd == 2017

tempRangeMin == 0

tempRangeMax == 40

monthCount == 12

MONTHS == << "January", "February", "March", "April", "May", "June", "July",
             "August", "September", "October", "November", "December" >>

\* ------------------------------------------------------------------------
\* Natural numbers of any size: sequences of limbs in base LimbBase, least
\* significant limb first, no zero limb at the top; << >> is 0
\* ------------------------------------------------------------------------
LimbBits == 15

LimbBase == 32768

RECURSIVE BigTrim(_)
BigTrim(a) ==
    IF a = << >> THEN << >>
    ELSE IF a[Len(a)] = 0 THEN BigTrim(SubSeq(a, 1, Len(a) - 1)) ELSE a

RECURSIVE BigOf(_)
BigOf(n) == IF n = 0 THEN << >> ELSE << n % LimbBase >> \o BigOf(n \div LimbBase)

RECURSIVE BigAddCarry(_, _, _)
BigAddCarry(a, b, c) ==
    IF a = << >> /\ b = << >>
    THEN IF c = 0 THEN << >> ELSE << c >>
    ELSE LET x == (IF a = << >> THEN 0 ELSE Head(a))
                    + (IF b = << >> THEN 0 ELSE Head(b)) + c
         IN  << x % LimbBase >>
               \o BigAddCarry(IF a = << >> THEN << >> ELSE Tail(a),
                              IF b = << >> THEN << >> ELSE Tail(b),
                              x \div LimbBase)

BigAdd(a, b) == BigAddCarry(a, b, 0)

\* a - b for a >= b
RECURSIVE BigSubBorrow(_, _, _)
BigSubBorrow(a, b, c) ==
    IF a = << >> THEN << >>
    ELSE LET x == Head(a) - (IF b = << >> THEN 0 ELSE Head(b)) - c
         IN  << (x + LimbBase) % LimbBase >>
               \o BigSubBorrow(Tail(a), IF b = << >> THEN << >> ELSE Tail(b),
                               IF x < 0 THEN 1 ELSE 0)

BigSub(a, b) == BigTrim(BigSubBorrow(a, b, 0))

\* a * k for 0 <= k < LimbBase
RECURSIVE BigMulCarry(_, _, _)
BigMulCarry(a, k, c) ==
    IF a = << >>
    THEN IF c = 0 THEN << >> ELSE << c >>
    ELSE LET x == Head(a) * k + c
         IN  << x % LimbBase >> \o BigMulCarry(Tail(a), k, x \div LimbBase)

BigMulSmall(a, k) == BigTrim(BigMulCarry(a, k, 0))

\* a * LimbBase^q
BigShlLimbs(a, q) == IF a = << >> THEN << >> ELSE [i \in 1..q |-> 0] \o a

\* a * 2^s
BigShl(a, s) == BigShlLimbs(BigMulSmall(a, 2 ^ (s % LimbBits)), s \div LimbBits)

RECURSIVE BigMul(_, _)
BigMul(a, b) ==
    IF b = << >> THEN << >>
    ELSE BigAdd(BigMulSmall(a, Head(b)), BigShlLimbs(BigMul(a, Tail(b)), 1))

\* quotient and remainder of a by k, 0 < k < LimbBase
RECURSIVE BigDivStep(_, _)
BigDivStep(a, k) ==
    IF a = << >> THEN [q |-> << >>, r |-> 0]
    ELSE LET hi  == BigDivStep(Tail(a), k)
             cur == hi.r * LimbBase + Head(a)
         IN  [q |-> << cur \div k >> \o hi.q, r |-> cur % k]

BigTrimQuotient(x) == [q |-> BigTrim(x.q), r |-> x.r]

BigDivSmall(a, k) == BigTrimQuotient(BigDivStep(a, k))

\* whether a limb of a is not 0
BigNonZero(a) == \E i \in DOMAIN a : a[i] # 0

\* x is the quotient of the upper limbs, dropped the limbs below them
BigShrOf(x, dropped) == [q |-> x.q, lost |-> x.r # 0 \/ BigNonZero(dropped)]

\* floor(a / 2^s) after the lowest q15 limbs are dropped
BigShrLimbs(a, q15, s) ==
    BigShrOf(BigDivSmall(SubSeq(a, q15 + 1, Len(a)), 2 ^ s),
             SubSeq(a, 1, IF q15 < Len(a) THEN q15 ELSE Len(a)))

\* floor(a / 2^s), and whether bits were lost
BigShr(a, s) == BigShrLimbs(a, s \div LimbBits, s % LimbBits)

RECURSIVE BitLength(_)
BitLength(n) == IF n = 0 THEN 0 ELSE 1 + BitLength(n \div 2)

BigBits(a) ==
    IF a = << >> THEN 0 ELSE LimbBits * (Len(a) - 1) + BitLength(a[Len(a)])

BigIsOdd(a) == a # << >> /\ a[1] % 2 = 1

\* a < b
RECURSIVE BigLessFromTop(_, _)
BigLessFromTop(a, b) ==
    IF a = << >> THEN FALSE
    ELSE IF a[Len(a)] # b[Len(b)] THEN a[Len(a)] < b[Len(b)]
    ELSE BigLessFromTop(SubSeq(a, 1, Len(a) - 1), SubSeq(b, 1, Len(b) - 1))

BigLess(a, b) ==
    IF Len(a) # Len(b) THEN Len(a) < Len(b) ELSE BigLessFromTop(a, b)

\* ------------------------------------------------------------------------
\* JavaScript numbers: IEEE 754 doubles.  A finite number is s * m * 2^e,
\* s the sign and m a natural number: of MantissaBits bits at an exponent
\* from MinExponent to MaxExponent for a normal number, of fewer bits at
\* MinExponent for a subnormal one, << >> at exponent 0 for zero.  Results
\* are rounded to nearest, ties to even; a result beyond the largest double
\* is an infinity.  The sign of zero is left out.
\* ------------------------------------------------------------------------
MantissaBits == 53

\* the exponent of the subnormal numbers and of the smallest normal ones
MinExponent == -1074

\* the exponent of the largest numbers
MaxExponent == 971

Zero == [t |-> "num", s |-> 1, m |-> << >>, e |-> 0]

NaN == [t |-> "nan", s |-> 1, m |-> << >>, e |-> 0]

Undefined == [t |-> "undef", s |-> 1, m |-> << >>, e |-> 0]

Infinity(sign) == [t |-> "inf", s |-> sign, m |-> << >>, e |-> 0]

\* the number of mantissa m, of at most MantissaBits bits, at exponent e:
\* an infinity beyond the largest double
InRange(sign, m, e) ==
    IF m = << >> THEN Zero
    ELSE IF e > MaxExponent THEN Infinity(sign)
    ELSE [t |-> "num", s |-> sign, m |-> m, e |-> e]

\* the mantissa m, of at most MantissaBits bits or one more after a carry, at
\* exponent e
Renormalised(sign, m, e) ==
    IF BigBits(m) > MantissaBits
    THEN InRange(sign, BigShr(m, 1).q, e + 1)
    ELSE InRange(sign, m, e)

\* kept, the bits from exponent e up, rounded by the guard bit below them and
\* by whether anything lies below the guard bit: to nearest, ties to even
RoundedUp(kept, guard, sticky) ==
    IF guard /\ (sticky \/ BigIsOdd(kept)) THEN BigAdd(kept, << 1 >>) ELSE kept

\* upTo holds the bits from exponent e - 1 up and whether bits below were lost
RoundedAt(sign, upTo, e, inexact) ==
    Renormalised(sign,
                 RoundedUp(BigShr(upTo.q, 1).q, BigIsOdd(upTo.q), upTo.lost \/ inexact),
                 e)

\* the exponent of the double nearest to a natural number of bits bits times
\* 2^e: the one that leaves MantissaBits bits, and MinExponent at least
ExponentOf(e, bits) ==
    IF e + bits - MantissaBits < MinExponent THEN MinExponent ELSE e + bits - MantissaBits

\* M * 2^e rounded to a mantissa at exponent target
RoundTo(sign, M, e, inexact, target) ==
    IF target <= e
    THEN InRange(sign, BigShl(M, e - target), target)
    ELSE RoundedAt(sign, BigShr(M, target - e - 1), target, inexact)

\* the double nearest to sign * M * 2^e, or to a value between that one and
\* sign * (M + 1) * 2^e when inexact (M then has bits below the mantissa)
RoundToDouble(sign, M, e, inexact) ==
    IF M = << >> THEN Zero ELSE RoundTo(sign, M, e, inexact, ExponentOf(e, BigBits(M)))

\* the number of an integer
Num(n) == RoundToDouble(IF n < 0 THEN -1 ELSE 1, BigOf(IF n < 0 THEN -n ELSE n), 0, FALSE)

\* the double nearest to sign * (x.q + x.r / k) * 2^e, x the quotient and
\* remainder of a division by k
RoundQuotient(sign, x, e) == RoundToDouble(sign, x.q, e, x.r # 0)

\* the number of the decimal literal sign * n / 10^k, 0 <= k <= 4
Decimal(sign, n, k) ==
    RoundQuotient(sign, BigDivSmall(BigShlLimbs(BigOf(n), 5), 10 ^ k), -(5 * LimbBits))

\* value >= value: a number, not NaN and not undefined
IsNum(a) == a.t \in { "num", "inf" }

\* |a| < |b| for finite a, b
MagLess(a, b) ==
    IF b.m = << >> THEN FALSE
    ELSE IF a.m = << >> THEN TRUE
    ELSE IF a.e # b.e THEN a.e < b.e
    ELSE BigLess(a.m, b.m)

\* a < b, a <= b, a >= b of JavaScript: false as soon as an operand is NaN
\* (undefined converts to NaN)
LT(a, b) ==
    /\ IsNum(a)
    /\ IsNum(b)
    /\ a # b
    /\ IF a.t = "inf" THEN a.s = -1
       ELSE IF b.t = "inf" THEN b.s = 1
       ELSE IF a.s # b.s THEN a.s = -1
       ELSE IF a.s = 1 THEN MagLess(a, b) ELSE MagLess(b, a)

LE(a, b) == IsNum(a) /\ IsNum(b) /\ (a = b \/ LT(a, b))

GE(a, b) == LE(b, a)

\* the sum of s1 * M1 and s2 * M2 at exponent e
AddAligned(s1, M1, s2, M2, e) ==
    RoundToDouble(IF s1 = s2 \/ ~BigLess(M1, M2) THEN s1 ELSE s2,
                  IF s1 = s2 THEN BigAdd(M1, M2)
                  ELSE IF BigLess(M1, M2) THEN BigSub(M2, M1) ELSE BigSub(M1, M2),
                  e, FALSE)

\* an operand whose exponent is more than AlignBits below that of the other
\* is less than half a unit in the last place of the other, and as little
\* when it is taken at AlignBits below
AlignBits == 64

\* the exponent at which two numbers of exponents lo <= hi are added
AlignedExponent(lo, hi) == IF hi - lo > AlignBits THEN hi - AlignBits ELSE lo

\* the mantissa of x at exponent e
MantissaAt(x, e) == BigShl(x.m, IF x.e > e THEN x.e - e ELSE 0)

\* finite a and b, neither zero, added at exponent e
AddAt(a, b, e) == AddAligned(a.s, MantissaAt(a, e), b.s, MantissaAt(b, e), e)

\* a + b
Add(a, b) ==
    IF ~IsNum(a) \/ ~IsNum(b) THEN NaN
    ELSE IF a.t = "inf" THEN (IF b.t = "inf" /\ b.s # a.s THEN NaN ELSE a)
    ELSE IF b.t = "inf" THEN b
    ELSE IF a.m = << >> THEN b
    ELSE IF b.m = << >> THEN a
    ELSE AddAt(a, b, AlignedExponent(IF a.e < b.e THEN a.e ELSE b.e,
                                     IF a.e < b.e THEN b.e ELSE a.e))

\* a * b
Mul(a, b) ==
    IF ~IsNum(a) \/ ~IsNum(b) THEN NaN
    ELSE IF a.t = "inf" \/ b.t = "inf"
    THEN (IF a = Zero \/ b = Zero THEN NaN ELSE Infinity(a.s * b.s))
    ELSE RoundToDouble(a.s * b.s, BigMul(a.m, b.m), a.e + b.e, FALSE)

\* a / k for an integer 0 < k < LimbBase
DivCount(a, k) ==
    IF ~IsNum(a) THEN NaN
    ELSE IF a.t = "inf" THEN a
    ELSE RoundQuotient(a.s, BigDivSmall(BigShlLimbs(a.m, 2), k), a.e - 2 * LimbBits)

\* unary plus on a CSV field (script.js:56-57).  "dec" is a decimal literal
\* sign * n / 10^k; "blank" is the empty string or white space only, which
\* is 0; "infinity" is the literal Infinity; "text" is any text that is no
\* numeric literal, which is NaN
ToNumber(field) ==
    CASE field.kind = "dec"      -> Decimal(field.sign, field.n, field.k)
      [] field.kind = "blank"    -> Zero
      [] field.kind = "infinity" -> Infinity(field.sign)
      [] OTHER                   -> NaN

\* ------------------------------------------------------------------------
\* Date: the time value is kept in hours since 1970-01-01T00:00Z
\* ------------------------------------------------------------------------
\* days since the epoch of the civil date y-m-d (m in 1..12)
DaysFromCivil(y, m, d) ==
    LET yy  == IF m <= 2 THEN y - 1 ELSE y
        era == yy \div 400
        yoe == yy - era * 400
        mp  == IF m > 2 THEN m - 3 ELSE m + 9
        doy == (153 * mp + 2) \div 5 + d - 1
        doe == yoe * 365 + yoe \div 4 - yoe \div 100 + doy
    IN  era * 146097 + doe - 719468

\* the civil date [y, m, d] (m in 1..12) of a day number
CivilFromDays(z0) ==
    LET z   == z0 + 719468
        era == z \div 146097
        doe == z - era * 146097
        yoe == (doe - doe \div 1460 + doe \div 36524 - doe \div 146096) \div 365
        doy == doe - (365 * yoe + yoe \div 4 - yoe \div 100)
        mp  == (5 * doy + 2) \div 153
        d   == doy - (153 * mp + 2) \div 5 + 1
        m   == IF mp < 10 THEN mp + 3 ELSE mp - 9
        y   == yoe + era * 400
    IN  [y |-> IF m <= 2 THEN y + 1 ELSE y, m |-> m, d |-> d]

InvalidDate == [valid |-> FALSE, t |-> 0]

\* the days of month m of year y
DaysInMonth(y, m) == DaysFromCivil(IF m = 12 THEN y + 1 ELSE y, IF m = 12 THEN 1 ELSE m + 1, 1)
                        - DaysFromCivil(y, m, 1)

\* new Date(s) (script.js:55) in a timezone offset hours east of UTC.
\*   "iso":    s is written YYYY-MM-DD.  A date of the calendar is midnight UTC
\*             of that day.  A month outside 1..12 or a day outside 1..31 is
\*             an Invalid Date.  A day up to 31 that the month does not have
\*             is left to the engine: a lenient one counts the days on into
\*             the next month, a strict one gives an Invalid Date.
\*   "legacy": s is some other text in which a lenient engine reads the date
\*             y-m-d, as local midnight; a strict one gives an Invalid Date.
\*   "none":   s is text no engine reads as a date.
NewDate(s, offset, lenient) ==
    CASE s.kind = "iso" ->
           IF s.m \notin 1..12 \/ s.d \notin 1..31 THEN InvalidDate
           ELSE IF s.d <= DaysInMonth(s.y, s.m) \/ lenient
           THEN [valid |-> TRUE, t |-> DaysFromCivil(s.y, s.m, s.d) * 24]
           ELSE InvalidDate
      [] s.kind = "legacy" ->
           IF lenient
           THEN [valid |-> TRUE, t |-> DaysFromCivil(s.y, s.m, s.d) * 24 - offset]
           ELSE InvalidDate
      [] OTHER -> InvalidDate

\* the local calendar date of a time value, offset hours east of UTC
LocalCivil(date, offset) == CivilFromDays((date.t + offset) \div 24)

\* Date.prototype.getFullYear / getMonth / getDate: local time, NaN when invalid
getFullYear(date, offset) ==
    IF date.valid THEN Num(LocalCivil(date, offset).y) ELSE NaN

getMonth(date, offset) ==
    IF date.valid THEN Num(LocalCivil(date, offset).m - 1) ELSE NaN

getDate(date, offset) ==
    IF date.valid THEN Num(LocalCivil(date, offset).d) ELSE NaN

\* ------------------------------------------------------------------------
\* Sequence helpers (Array.prototype.map/filter/sort, Set)
\* ------------------------------------------------------------------------
Contains(s, x) == \E i \in DOMAIN s : s[i] = x

\* [...new Set(s)]: the distinct elements in order of first occurrence
RECURSIVE Uniq(_)
Uniq(s) ==
    IF s = << >> THEN << >>
    ELSE LET front == Uniq(SubSeq(s, 1, Len(s) - 1))
             last  == s[Len(s)]
         IN  IF Contains(front, last) THEN front ELSE Append(front, last)

\* Array.prototype.sort((a, b) => a - b) on numbers: x is put into the sorted
\* sequence s after every element not above it
RECURSIVE insertNumber(_, _)
insertNumber(x, s) ==
    IF s = << >> THEN << x >>
    ELSE IF LE(s[Len(s)], x)
         THEN Append(s, x)
         ELSE Append(insertNumber(x, SubSeq(s, 1, Len(s) - 1)), s[Len(s)])

RECURSIVE sortNumbers(_)
sortNumbers(s) ==
    IF s = << >> THEN << >>
    ELSE insertNumber(s[Len(s)], sortNumbers(SubSeq(s, 1, Len(s) - 1)))

\* Array.prototype.sort((a, b) => a.day - b.day) on records: stable, a record
\* goes after every record whose day is not above its own
RECURSIVE insertByDay(_, _)
insertByDay(x, s) ==
    IF s = << >> THEN << x >>
    ELSE IF LE(s[Len(s)].day, x.day)
         THEN Append(s, x)
         ELSE Append(insertByDay(x, SubSeq(s, 1, Len(s) - 1)), s[Len(s)])

RECURSIVE sortByDay(_)
sortByDay(s) ==
    IF s = << >> THEN << >>
    ELSE insertByDay(s[Len(s)], sortByDay(SubSeq(s, 1, Len(s) - 1)))

RECURSIVE Concat(_)
Concat(ss) == IF ss = << >> THEN << >> ELSE Head(ss) \o Concat(Tail(ss))

\* ------------------------------------------------------------------------
\* The environment: what the CSV file may hold, and the timezone of the
\* browser (hours east of UTC)
\* ------------------------------------------------------------------------
IsoDate(y, m, d) == [kind |-> "iso", y |-> y, m |-> m, d |-> d]

\* text such as 2015/01/15, in which a lenient engine reads y-m-d
LegacyDate(y, m, d) == [kind |-> "legacy", y |-> y, m |-> m, d |-> d]

BadDate == [kind |-> "none", y |-> 0, m |-> 0, d |-> 0]

\* the decimal literal n / 10^k
DecField(n, k) == [kind |-> "dec", sign |-> 1, n |-> n, k |-> k]

BlankField == [kind |-> "blank", sign |-> 1, n |-> 0, k |-> 0]

InfinityField == [kind |-> "infinity", sign |-> 1, n |-> 0, k |-> 0]

TextField == [kind |-> "text", sign |-> 1, n |-> 0, k |-> 0]

RawRow(ds, mx, mn) == [date |-> ds, max_temperature |-> mx, min_temperature |-> mn]

\* rows with a date of the calendar and two decimal temperatures
GoodRows ==
    { RawRow(IsoDate(2008, 1, 1), DecField(20, 0), DecField(10, 0)),
      RawRow(IsoDate(2015, 1, 15), DecField(20, 0), DecField(10, 0)),
      RawRow(IsoDate(2015, 1, 16), DecField(22, 0), DecField(11, 0)),
      RawRow(IsoDate(2015, 2, 1), DecField(20, 0), DecField(10, 0)),
      RawRow(IsoDate(2018, 1, 1), DecField(22, 0), DecField(11, 0)),
      RawRow(IsoDate(2015, 1, 15), DecField(1, 1), DecField(1, 1)) }

\* rows with a field that is no date or no decimal number
OddRows ==
    { RawRow(IsoDate(2015, 1, 15), BlankField, TextField),
      RawRow(IsoDate(2015, 1, 16), InfinityField, DecField(10, 0)),
      RawRow(LegacyDate(2015, 1, 15), DecField(20, 0), DecField(10, 0)),
      RawRow(BadDate, DecField(20, 0), DecField(10, 0)) }

RawRows == GoodRows \cup OddRows

SeqsUpTo(S, n) == UNION { [1..k -> S] : k \in 0..n }

TimezoneOffsets == { -5, 8 }

\* ------------------------------------------------------------------------
\* UTILITY FUNCTIONS
\* ------------------------------------------------------------------------
\* one element of rawData.map(...) (script.js:54-61)
parseRow(d, offset, lenient) ==
    LET date == NewDate(d.date, offset, lenient)
    IN  [ date           |-> date,
          maxTemperature |-> ToNumber(d.max_temperature),
          minTemperature |-> ToNumber(d.min_temperature),
          year           |-> getFullYear(date, offset),
          month          |-> getMonth(date, offset),
          day            |-> getDate(date, offset) ]

parseTemperatureData(rawData, offset, lenient) ==
    [i \in 1..Len(rawData) |-> parseRow(rawData[i], offset, lenient)]

\* CONFIG.yearRange as numbers
startYear == Num(yearRangeStart)

endYear == Num(yearRangeEnd)

\* mutant: the start of the range left out (> for >=)
inYearRangeExclusive(d) == LT(startYear, d.year) /\ LE(d.year, endYear)

\* d.year >= startYear && d.year <= endYear (script.js:70-72)
inYearRange(d) == GE(d.year, startYear) /\ LE(d.year, endYear)

\* filteredData.map((d) => d.year)
yearsOf(records) == [i \in 1..Len(records) |-> records[i].year]

\* mutant: the years kept in order of first occurrence (the sort forgotten)
filterDataByYearRangeUnsorted(data) ==
    LET filteredData == SelectSeq(data, inYearRange)
        years == Uniq(yearsOf(filteredData))
    IN  [filteredData |-> filteredData, years |-> years]

filterDataByYearRange(data) ==
    LET filteredData == SelectSeq(data, inYearRange)
        years == sortNumbers(Uniq(yearsOf(filteredData)))
    IN  [filteredData |-> filteredData, years |-> years]

\* d3.max / d3.min / d3.mean: values that are undefined or NaN are skipped;
\* the result is undefined when nothing is left
Valid(vals) == SelectSeq(vals, IsNum)

RECURSIVE MaxOf(_)
MaxOf(vals) ==
    IF Len(vals) = 1 THEN vals[1]
    ELSE LET m == MaxOf(SubSeq(vals, 1, Len(vals) - 1))
         IN  IF LT(m, vals[Len(vals)]) THEN vals[Len(vals)] ELSE m

RECURSIVE MinOf(_)
MinOf(vals) ==
    IF Len(vals) = 1 THEN vals[1]
    ELSE LET m == MinOf(SubSeq(vals, 1, Len(vals) - 1))
         IN  IF LT(vals[Len(vals)], m) THEN vals[Len(vals)] ELSE m

RECURSIVE SumOf(_)
SumOf(vals) ==
    IF vals = << >> THEN Zero
    ELSE Add(SumOf(SubSeq(vals, 1, Len(vals) - 1)), vals[Len(vals)])

d3max(vals) == IF Valid(vals) = << >> THEN Undefined ELSE MaxOf(Valid(vals))

d3min(vals) == IF Valid(vals) = << >> THEN Undefined ELSE MinOf(Valid(vals))

d3mean(vals) ==
    IF Valid(vals) = << >> THEN Undefined
    ELSE DivCount(SumOf(Valid(vals)), Len(Valid(vals)))

\* the values the accessors (d) => d.maxTemperature and (d) => d.minTemperature
\* give on the records
maxTemperatures(records) == [i \in 1..Len(records) |-> records[i].maxTemperature]

minTemperatures(records) == [i \in 1..Len(records) |-> records[i].minTemperature]

\* the index of MONTHS.forEach as a number
monthIndexNumber == [monthIndex \in 0..(monthCount - 1) |-> Num(monthIndex)]

\* groupedData.get(year)?.get(monthIndex) || [] (script.js:87-91, 98): the
\* records of that year and month, in input order
monthRecordsOf(data, year, monthIndex) ==
    SelectSeq(data, LAMBDA d : d.year = year /\ d.month = monthIndexNumber[monthIndex])

\* mutant: dailyData left in input order (the sort by day forgotten)
monthlySummaryUnsorted(year, monthIndex, monthRecords) ==
    [ year      |-> year,
      month     |-> monthIndex,
      monthName |-> MONTHS[monthIndex + 1],
      maxTemp   |-> d3max(maxTemperatures(monthRecords)),
      minTemp   |-> d3min(minTemperatures(monthRecords)),
      avgMax    |-> d3mean(maxTemperatures(monthRecords)),
      avgMin    |-> d3mean(minTemperatures(monthRecords)),
      dailyData |-> monthRecords ]

\* the object pushed at script.js:101-110
monthlySummary(year, monthIndex, monthRecords) ==
    [ year      |-> year,
      month     |-> monthIndex,
      monthName |-> MONTHS[monthIndex + 1],
      maxTemp   |-> d3max(maxTemperatures(monthRecords)),
      minTemp   |-> d3min(minTemperatures(monthRecords)),
      avgMax    |-> d3mean(maxTemperatures(monthRecords)),
      avgMin    |-> d3mean(minTemperatures(monthRecords)),
      dailyData |-> sortByDay(monthRecords) ]

\* mutant: a summary pushed for every month, with or without records
monthEntryDense(data, year, monthIndex) ==
    << monthlySummary(year, monthIndex, monthRecordsOf(data, year, monthIndex)) >>

\* the body of MONTHS.forEach for one month (script.js:97-112)
monthEntry(data, year, monthIndex) ==
    LET monthRecords == monthRecordsOf(data, year, monthIndex)
    IN  IF Len(monthRecords) > 0
        THEN << monthlySummary(year, monthIndex, monthRecords) >>
        ELSE << >>

aggregateMonthlyData(data, years) ==
    Concat([y \in 1..Len(years) |->
              Concat([mi \in 1..monthCount |-> monthEntry(data, years[y], mi - 1)])])

\* createColorScale() (script.js:123-128): a sequential scale on the domain
\* [tempRangeMin, tempRangeMax].  t0 is the start of the domain and k10 is
\* 1 / (t1 - t0)
t0 == Num(tempRangeMin)

k10 == DivCount(Num(1), tempRangeMax - tempRangeMin)

One == Num(1)

\* the scale applied to x.  x that is no number has no colour; the position
\* is (x - t0) * k10, and the interpolator takes a position below 0 as 0 and
\* one above 1 as 1
clamped(pos) == IF LE(pos, Zero) THEN Zero ELSE IF GE(pos, One) THEN One ELSE pos

colorScale(x) ==
    IF x.t \in { "nan", "undef" } THEN [scheme |-> "unknown", at |-> Undefined]
    ELSE [scheme |-> "YlOrRd", at |-> clamped(Mul(Add(x, [t0 EXCEPT !.s = -t0.s]), k10))]

\* the fill function of script.js:250 and script.js:408
cellFillOf(d, showingMax) == colorScale(IF showingMax THEN d.avgMax ELSE d.avgMin)

buttonText(showingMax) ==
    IF showingMax THEN "Showing: Maximum Temperature"
    ELSE "Showing: Minimum Temperature"

\* ------------------------------------------------------------------------
\* State
\* ------------------------------------------------------------------------
VARIABLES
    pc,               \* where the program is: "loading", "failed", "resolved",
                      \* "parsed", "filtered", "aggregated", "rendered", "ready"
    csvFile,          \* the rows of temperature_daily.csv
    tz,               \* timezone of the browser, hours east of UTC
    rawData,          \* argument of the then-callback
    parsedData,       \* script.js:421
    filteredData,     \* script.js:424
    years,            \* script.js:424
    monthlyData,      \* script.js:427
    isShowingMaxTemp, \* script.js:42
    page,             \* what the script has put on the page
    cellFill,         \* fill requested for the rect of each cell, in data order
    markup,           \* text the HTML of the page gives #toggleBtn
    btnText,          \* text of #toggleBtn
    handlerAttached,  \* the click listener of #toggleBtn is set
    clicks,           \* number of clicks the listener handled
    ignoredClicks,    \* number of clicks on #toggleBtn while it had no listener
    steps             \* the steps of the callback that ran, in order

vars == << pc, csvFile, tz, rawData, parsedData, filteredData, years,
           monthlyData, isShowingMaxTemp, page, cellFill, markup, btnText,
           handlerAttached, clicks, ignoredClicks, steps >>

data == << csvFile, tz, rawData, parsedData, filteredData, years, monthlyData >>

view == << isShowingMaxTemp, page, cellFill, markup, btnText, handlerAttached,
           clicks, ignoredClicks >>

\* The HTML of the page is not part of the script.  The text it gives the
\* button is the name of the mode the script starts in, or some other text
OtherText == "markup"

MarkupTexts == { buttonText(TRUE), OtherText }

\* files of all the rows, on a page that gives the button some text
Init ==
    /\ pc = "loading"
    /\ csvFile \in SeqsUpTo(RawRows, MaxRows)
    /\ tz \in TimezoneOffsets
    /\ rawData = << >>
    /\ parsedData = << >>
    /\ filteredData = << >>
    /\ years = << >>
    /\ monthlyData = << >>
    /\ isShowingMaxTemp = TRUE
    /\ page = { }
    /\ cellFill = << >>
    /\ markup = OtherText
    /\ btnText = markup
    /\ handlerAttached = FALSE
    /\ clicks = 0
    /\ ignoredClicks = 0
    /\ steps = << >>

\* the page with either text on the button, and files of the rows whose cells
\* differ in what is drawn
ToggleRows ==
    { RawRow(IsoDate(2015, 1, 15), DecField(20, 0), DecField(10, 0)),
      RawRow(IsoDate(2015, 1, 16), DecField(22, 0), DecField(11, 0)),
      RawRow(IsoDate(2015, 2, 1), DecField(20, 0), DecField(10, 0)),
      RawRow(IsoDate(2015, 1, 15), BlankField, TextField),
      RawRow(IsoDate(2015, 1, 16), InfinityField, DecField(10, 0)) }

ToggleInit ==
    /\ pc = "loading"
    /\ csvFile \in SeqsUpTo(ToggleRows, MaxRows)
    /\ tz \in TimezoneOffsets
    /\ rawData = << >>
    /\ parsedData = << >>
    /\ filteredData = << >>
    /\ years = << >>
    /\ monthlyData = << >>
    /\ isShowingMaxTemp = TRUE
    /\ page = { }
    /\ cellFill = << >>
    /\ markup \in MarkupTexts
    /\ btnText = markup
    /\ handlerAttached = FALSE
    /\ clicks = 0
    /\ ignoredClicks = 0
    /\ steps = << >>

\* ------------------------------------------------------------------------
\* MAIN EXECUTION (script.js:419-456)
\* ------------------------------------------------------------------------
\* d3.csv(...) resolves with the rows of the file
LoadResolve ==
    /\ pc = "loading"
    /\ pc' = "resolved"
    /\ rawData' = csvFile
    /\ UNCHANGED << csvFile, tz, parsedData, filteredData, years, monthlyData,
                    view, steps >>

\* d3.csv(...) rejects: then() was given no rejection handler and nothing
\* catches, so no code of the script runs
LoadFail ==
    /\ pc = "loading"
    /\ pc' = "failed"
    /\ UNCHANGED << data, view, steps >>

\* Step 1
Parse ==
    /\ pc = "resolved"
    /\ \E lenient \in BOOLEAN : parsedData' = parseTemperatureData(rawData, tz, lenient)
    /\ pc' = "parsed"
    /\ steps' = Append(steps, "parse")
    /\ UNCHANGED << csvFile, tz, rawData, filteredData, years, monthlyData, view >>

\* Step 2
Filter ==
    /\ pc = "parsed"
    /\ filteredData' = filterDataByYearRange(parsedData).filteredData
    /\ years' = filterDataByYearRange(parsedData).years
    /\ pc' = "filtered"
    /\ steps' = Append(steps, "filter")
    /\ UNCHANGED << csvFile, tz, rawData, parsedData, monthlyData, view >>

\* Step 3
Aggregate ==
    /\ pc = "filtered"
    /\ monthlyData' = aggregateMonthlyData(filteredData, years)
    /\ pc' = "aggregated"
    /\ steps' = Append(steps, "aggregate")
    /\ UNCHANGED << csvFile, tz, rawData, parsedData, filteredData, years, view >>

\* renderCells (script.js:227-268): the fill of each cell
renderCells(monthly, showingMax) ==
    [i \in 1..Len(monthly) |-> cellFillOf(monthly[i], showingMax)]

\* Steps 4 to 11: the svg, the tooltip, the labels, the cells, the line
\* charts and the legend
Render ==
    /\ pc = "aggregated"
    /\ page' = page \cup { "svg", "tooltip", "labels", "cells", "lines", "legend" }
    /\ cellFill' = renderCells(monthlyData, isShowingMaxTemp)
    /\ pc' = "rendered"
    /\ steps' = Append(steps, "render")
    /\ UNCHANGED << data, isShowingMaxTemp, markup, btnText, handlerAttached, clicks,
                    ignoredClicks >>

\* Step 12: attachToggleButtonHandler (script.js:391-392)
AttachToggle ==
    /\ pc = "rendered"
    /\ handlerAttached' = TRUE
    /\ pc' = "ready"
    /\ steps' = Append(steps, "attach")
    /\ UNCHANGED << data, isShowingMaxTemp, page, cellFill, markup, btnText, clicks,
                    ignoredClicks >>

\* mutant: the flag left as it is
toggledStuck(showingMax) == showingMax

\* the listener of script.js:392-409
toggled(showingMax) == ~showingMax

Click ==
    /\ handlerAttached
    /\ clicks < MaxClicks
    /\ isShowingMaxTemp' = toggled(isShowingMaxTemp)
    /\ btnText' = buttonText(isShowingMaxTemp')
    /\ cellFill' = renderCells(monthlyData, isShowingMaxTemp')
    /\ clicks' = clicks + 1
    /\ UNCHANGED << pc, data, page, markup, handlerAttached, ignoredClicks, steps >>

\* a click on #toggleBtn while the load is pending or after it failed: the
\* listener is set at the end of the then-callback only (script.js:455), so
\* no code of the script runs
ClickUnattached ==
    /\ pc \in { "loading", "failed" }
    /\ ~handlerAttached
    /\ ignoredClicks < MaxIgnoredClicks
    /\ ignoredClicks' = ignoredClicks + 1
    /\ UNCHANGED << pc, data, isShowingMaxTemp, page, cellFill, markup, btnText,
                    handlerAttached, clicks, steps >>

Next ==
    \/ LoadResolve
    \/ LoadFail
    \/ Parse
    \/ Filter
    \/ Aggregate
    \/ Render
    \/ AttachToggle
    \/ Click

Spec == Init /\ [][Next]_vars

\* the program with the clicks that come before the listener is set, which
\* change nothing of the program
ToggleNext == Next \/ ClickUnattached

ToggleSpec == ToggleInit /\ [][ToggleNext]_vars

\* ------------------------------------------------------------------------
\* Vocabulary of the properties
\* ------------------------------------------------------------------------
AfterParse == pc \in { "parsed", "filtered", "aggregated", "rendered", "ready" }

AfterFilter == pc \in { "filtered", "aggregated", "rendered", "ready" }

AfterAggregate == pc \in { "aggregated", "rendered", "ready" }

AfterRender == pc \in { "rendered", "ready" }

\* number of positions of s that hold x
Count(s, x) == Cardinality({ i \in DOMAIN s : s[i] = x })

Range(s) == { s[i] : i \in DOMAIN s }

\* the year of r is a number inside the configured range, bounds included
yearNumbers == { Num(y) : y \in yearRangeStart..yearRangeEnd }

YearInRange(r) == r.year \in yearNumbers

\* sub is s with some positions left out, the others in their order
RECURSIVE IsSubsequence(_, _)
IsSubsequence(sub, s) ==
    IF sub = << >> THEN TRUE
    ELSE IF s = << >> THEN FALSE
    ELSE IF Head(sub) = Head(s) THEN IsSubsequence(Tail(sub), Tail(s))
    ELSE IsSubsequence(sub, Tail(s))

\* the records handed to aggregateMonthlyData that fall in the month of s
InMonth(s) == { i \in DOMAIN filteredData :
                  filteredData[i].year = s.year /\ filteredData[i].month = monthIndexNumber[s.month] }

\* the (year, month) pairs that have a record
NonEmptyPairs == { << filteredData[i].year, filteredData[i].month >> : i \in DOMAIN filteredData }

\* ------------------------------------------------------------------------
\* C1: filterDataByYearRange returns exactly the records whose year is in
\* [start, end], bounds included and input order kept; years is the set of
\* the years of those records, strictly ascending; nothing in range gives
\* two empty lists.
\* ------------------------------------------------------------------------
C1_FilterExact ==
    AfterFilter =>
        /\ \A i \in DOMAIN filteredData : YearInRange(filteredData[i])
        /\ \A i \in DOMAIN parsedData :
              Count(filteredData, parsedData[i]) =
                 IF YearInRange(parsedData[i]) THEN Count(parsedData, parsedData[i]) ELSE 0
        /\ IsSubsequence(filteredData, parsedData)
        /\ Range(years) = { filteredData[i].year : i \in DOMAIN filteredData }
        /\ \A i, j \in DOMAIN years : i < j => LT(years[i], years[j])
        /\ (\A i \in DOMAIN parsedData : ~YearInRange(parsedData[i])) =>
              (filteredData = << >> /\ years = << >>)

\* two records of the first year of the range are kept and share a year, a
\* record of the year after the range is dropped
C1_Witness ==
    /\ AfterFilter
    /\ Len(filteredData) = 2
    /\ Len(years) = 1
    /\ years[1] = startYear
    /\ \E i \in DOMAIN parsedData : parsedData[i].year = Num(yearRangeEnd + 1)

\* ------------------------------------------------------------------------
\* C2: aggregateMonthlyData emits one summary for each (year, month) that has
\* a record and none for the others: no pair twice, and as many summaries as
\* there are pairs with a record.
\* ------------------------------------------------------------------------
C2_OnePerNonEmptyMonth ==
    AfterAggregate =>
        /\ \A i, j \in DOMAIN monthlyData :
              (monthlyData[i].year = monthlyData[j].year
                 /\ monthlyData[i].month = monthlyData[j].month) => i = j
        /\ { << monthlyData[i].year, monthIndexNumber[monthlyData[i].month] >> : i \in DOMAIN monthlyData }
              = NonEmptyPairs
        /\ Len(monthlyData) = Cardinality(NonEmptyPairs)
        /\ \A i \in DOMAIN monthlyData : InMonth(monthlyData[i]) # { }

\* two records share a month and a third is in another one
C2_Witness ==
    /\ AfterAggregate
    /\ Len(monthlyData) = 2
    /\ Len(filteredData) = 3
    /\ Len(monthlyData) < Len(years) * monthCount

\* ------------------------------------------------------------------------
\* C4: the summaries are ordered by year, then by month, strictly, whatever
\* the order of the input records.
\* ------------------------------------------------------------------------
C4_YearMajorMonthMinor ==
    AfterAggregate =>
        \A i, j \in DOMAIN monthlyData :
            i < j =>
              \/ LT(monthlyData[i].year, monthlyData[j].year)
              \/ /\ monthlyData[i].year = monthlyData[j].year
                 /\ monthlyData[i].month < monthlyData[j].month

\* three summaries, two of them of one year, from records that come in with
\* the later year first and the later month first
C4_Witness ==
    /\ AfterAggregate
    /\ Len(monthlyData) = 3
    /\ monthlyData[2].year = monthlyData[3].year
    /\ LT(filteredData[3].year, filteredData[1].year)
    /\ filteredData[1].year = filteredData[2].year
    /\ LT(filteredData[2].month, filteredData[1].month)

\* ------------------------------------------------------------------------
\* C5: dailyData of a summary holds the input records of its month, each as
\* often as the input does, ordered by non-decreasing day.
\* ------------------------------------------------------------------------
C5_DailyDataOfMonth ==
    AfterAggregate =>
        \A k \in DOMAIN monthlyData :
            LET s == monthlyData[k]
            IN  /\ Len(s.dailyData) = Cardinality(InMonth(s))
                /\ \A i \in InMonth(s) :
                      Count(s.dailyData, filteredData[i]) = Count(filteredData, filteredData[i])
                /\ \A i \in DOMAIN s.dailyData :
                      \E j \in InMonth(s) : filteredData[j] = s.dailyData[i]
                /\ \A i, j \in DOMAIN s.dailyData :
                      i < j => LE(s.dailyData[i].day, s.dailyData[j].day)

\* a month whose records come in with a later day first
C5_Witness ==
    /\ AfterAggregate
    /\ \E k \in DOMAIN monthlyData :
          \E i, j \in InMonth(monthlyData[k]) :
              i < j /\ LT(filteredData[j].day, filteredData[i].day)

\* ------------------------------------------------------------------------
\* C8 as stated: isShowingMaxTemp starts true and is true when the cells are
\* drawn; every click on the button flips it once, so it is true iff the
\* number of clicks is even; after the initial render and after every click
\* the fill requested for each cell is colorScale(avgMax) of its summary when
\* the flag is true and colorScale(avgMin) when it is false, and the text of
\* the button names the same mode.
\* ------------------------------------------------------------------------
C8_EveryClickFlipsAndTextNamesMode ==
    /\ isShowingMaxTemp = ((clicks + ignoredClicks) % 2 = 0)
    /\ AfterRender =>
          /\ Len(cellFill) = Len(monthlyData)
          /\ \A i \in DOMAIN monthlyData :
                cellFill[i] = IF isShowingMaxTemp
                              THEN colorScale(monthlyData[i].avgMax)
                              ELSE colorScale(monthlyData[i].avgMin)
          /\ btnText = IF isShowingMaxTemp THEN "Showing: Maximum Temperature"
                       ELSE "Showing: Minimum Temperature"

\* ------------------------------------------------------------------------
\* C8 as amended: isShowingMaxTemp starts true and is true when the cells are
\* drawn; a click made while the button has no listener changes nothing, and
\* every click made once the listener is set flips the flag once, so the
\* flag is true iff the number of those clicks is even; after the initial
\* render and after every such click the fill requested for each cell is
\* colorScale(avgMax) of its summary when the flag is true and
\* colorScale(avgMin) when it is false; the text of the button is the one the
\* page gave it until the first such click, and names the mode from then on.
\* ------------------------------------------------------------------------
C8_ToggleConsistent ==
    /\ isShowingMaxTemp = (clicks % 2 = 0)
    /\ ~handlerAttached => (isShowingMaxTemp /\ clicks = 0)
    /\ ~AfterRender => (cellFill = << >> /\ clicks = 0)
    /\ AfterRender =>
          /\ Len(cellFill) = Len(monthlyData)
          /\ \A i \in DOMAIN monthlyData :
                cellFill[i] = IF isShowingMaxTemp
                              THEN colorScale(monthlyData[i].avgMax)
                              ELSE colorScale(monthlyData[i].avgMin)
    /\ clicks = 0 => btnText = markup
    /\ clicks > 0 =>
          btnText = IF isShowingMaxTemp THEN "Showing: Maximum Temperature"
                    ELSE "Showing: Minimum Temperature"

\* a click was ignored while the load was pending, the page gave the button
\* another text, two clicks were handled and a cell whose two colours differ
\* shows the colour of avgMax again
C8_Witness ==
    /\ ignoredClicks = 1
    /\ markup = OtherText
    /\ clicks = 2
    /\ isShowingMaxTemp
    /\ btnText = "Showing: Maximum Temperature"
    /\ \E i \in DOMAIN monthlyData :
          /\ colorScale(monthlyData[i].avgMax) # colorScale(monthlyData[i].avgMin)
          /\ cellFill[i] = colorScale(monthlyData[i].avgMax)

\* ------------------------------------------------------------------------
\* What the specification asks of the rows and of the summaries
\* ------------------------------------------------------------------------
\* a raw row with a date of the calendar written YYYY-MM-DD and two
\* temperature fields that are decimal literals
WellFormed(row) ==
    /\ row.date.kind = "iso"
    /\ row.date.m \in 1..12
    /\ row.date.d \in 1..DaysInMonth(row.date.y, row.date.m)
    /\ row.max_temperature.kind = "dec"
    /\ row.min_temperature.kind = "dec"

\* the sum of maxTemperature (ofMax) or of minTemperature over the records at
\* the positions I of filteredData, added in floating point from 0 in the
\* order of the positions; it is NaN as soon as one term is
RECURSIVE SumOver(_, _)
SumOver(ofMax, I) ==
    IF I = { } THEN Zero
    ELSE LET i == CHOOSE k \in I : \A l \in I : l <= k
             term == IF ofMax THEN filteredData[i].maxTemperature
                     ELSE filteredData[i].minTemperature
         IN  Add(SumOver(ofMax, I \ { i }), term)

\* ------------------------------------------------------------------------
\* C3: in every summary maxTemp is the maximum of maxTemperature over the
\* records of the month, minTemp the minimum of minTemperature, avgMax and
\* avgMin the sums of maxTemperature and of minTemperature divided by the
\* number of records of the month.
\* ------------------------------------------------------------------------
C3_ExactAggregates ==
    AfterAggregate =>
        \A k \in DOMAIN monthlyData :
            LET s == monthlyData[k]
            IN  /\ \E i \in InMonth(s) : filteredData[i].maxTemperature = s.maxTemp
                /\ \A i \in InMonth(s) : LE(filteredData[i].maxTemperature, s.maxTemp)
                /\ \E i \in InMonth(s) : filteredData[i].minTemperature = s.minTemp
                /\ \A i \in InMonth(s) : GE(filteredData[i].minTemperature, s.minTemp)
                /\ s.avgMax = DivCount(SumOver(TRUE, InMonth(s)),
                                       Cardinality(InMonth(s)))
                /\ s.avgMin = DivCount(SumOver(FALSE, InMonth(s)),
                                       Cardinality(InMonth(s)))

\* the same on files whose rows are all well-formed
AllRowsWellFormed == \A i \in DOMAIN csvFile : WellFormed(csvFile[i])

ExactAggregatesOfWellFormedRows == AllRowsWellFormed => C3_ExactAggregates

\* ------------------------------------------------------------------------
\* C6: the record parsed from a well-formed row has the year, the month
\* minus one and the day that are written in the date string, in every
\* timezone.
\* ------------------------------------------------------------------------
C6_DateFieldsMatchString ==
    AfterParse =>
        \A i \in DOMAIN rawData :
            WellFormed(rawData[i]) =>
                /\ parsedData[i].year = Num(rawData[i].date.y)
                /\ parsedData[i].month = Num(rawData[i].date.m - 1)
                /\ parsedData[i].day = Num(rawData[i].date.d)

\* the dates match in a timezone at or east of UTC
DateFieldsMatchEastOfUTC == tz >= 0 => C6_DateFieldsMatchString

\* ------------------------------------------------------------------------
\* C7: a row with a malformed date or a temperature field that is no number
\* (empty included) is reported as a parse failure: the batch fails or the
\* row is skipped, so parsing never ends with a record made from such a row.
\* ------------------------------------------------------------------------
C7_NoSilentCoercion ==
    AfterParse =>
        /\ Len(parsedData) = Cardinality({ i \in DOMAIN rawData : WellFormed(rawData[i]) })
        /\ \A j \in DOMAIN parsedData :
              /\ parsedData[j].date.valid
              /\ IsNum(parsedData[j].year)
              /\ \E i \in DOMAIN rawData :
                    /\ WellFormed(rawData[i])
                    /\ parsedData[j].maxTemperature = ToNumber(rawData[i].max_temperature)
                    /\ parsedData[j].minTemperature = ToNumber(rawData[i].min_temperature)

\* ------------------------------------------------------------------------
\* C9: in every summary minTemp <= avgMin and avgMax <= maxTemp; and when
\* every record of the month has minTemperature <= maxTemperature, also
\* avgMin <= avgMax.
\* ------------------------------------------------------------------------
C9_MinAvgMaxOrdered ==
    AfterAggregate =>
        \A k \in DOMAIN monthlyData :
            LET s == monthlyData[k]
            IN  /\ LE(s.minTemp, s.avgMin)
                /\ LE(s.avgMax, s.maxTemp)
                /\ (\A i \in InMonth(s) :
                       LE(filteredData[i].minTemperature, filteredData[i].maxTemperature))
                      => LE(s.avgMin, s.avgMax)

\* a file of well-formed rows whose summary has avgMax above maxTemp: the sum
\* of the month is rounded up and the quotient with it
RoundedMeanAboveMax ==
    /\ AfterAggregate
    /\ AllRowsWellFormed
    /\ \E k \in DOMAIN monthlyData : LT(monthlyData[k].maxTemp, monthlyData[k].avgMax)

\* ------------------------------------------------------------------------
\* C10: the steps run only after the load resolved, each at most once, in
\* the order parse, filter, aggregate, render, attach; when the load fails
\* none of them runs, no chart is drawn, the handler is not attached and the
\* flag stays true, the failure is shown to the user, and the load is not
\* started again.
\* ------------------------------------------------------------------------
StepOrder == << "parse", "filter", "aggregate", "render", "attach" >>

C10_StepsInOrder ==
    /\ Len(steps) <= Len(StepOrder)
    /\ steps = SubSeq(StepOrder, 1, Len(steps))
    /\ pc \in { "loading", "failed" } => steps = << >>
    /\ "svg" \in page <=> Contains(steps, "render")
    /\ handlerAttached <=> Contains(steps, "attach")

C10_FailureRunsNothing ==
    pc = "failed" =>
        /\ steps = << >>
        /\ "svg" \notin page
        /\ ~handlerAttached
        /\ isShowingMaxTemp
        /\ ~ENABLED LoadResolve
        /\ ~ENABLED LoadFail
        /\ ~ENABLED Parse

C10_FailureSurfaced == pc = "failed" => "load-error" \in page

C10_LoadThenPipeline ==
    /\ C10_StepsInOrder
    /\ C10_FailureRunsNothing
    /\ C10_FailureSurfaced

====
